---- MODULE Spec2Model ----
(***************************************************************************)
(* prequel: the statement-aware scanner of the query editor (highlighter), *)
(* the cursor resolver (cursorInWhichStatement) and the execute path       *)
(* (runQuery) of main.go.                                                  *)
(*                                                                         *)
(* Offsets are the 0-based offsets of the Go code; a TLA+ sequence is      *)
(* 1-based, so the character at offset o of a stream cs is cs[o + 1].      *)
(* Text is a sequence of one-character strings; strings built by the code  *)
(* with += (word, query) are TLA+ strings built with \o.                   *)
(***************************************************************************)
EXTENDS Integers, Sequences, FiniteSets, TLC

VARIABLES
    lines,       \* editor.Lines: the lines of character cells [Char, Fg, Bg]
    cursor,      \* editor.GetCursor(): offset into the flattened stream
    statements,  \* var statements []Statement
    statement,   \* var statement Statement
    log,         \* the rows tui.Log wrote during the last pass, one per character
    pc,          \* "idle", or "query" while runQuery is blocked in db.Query
    query,       \* the query string runQuery handed to db.Query
    status,      \* status.Text
    results      \* results.Columns and results.Rows

vars == <<lines, cursor, statements, statement, log, pc, query, status, results>>

----------------------------------------------------------------------------
(* Bounds of the model *)

MaxChars == 3
MaxLines == 1
CursorSlack == 1

\* the characters the modelled keyboard can type
Alphabet == {"a", ";", "'", "\"", "\\"}

----------------------------------------------------------------------------
(* Constants of main.go *)

minColumnWidth == 5
maxColumnWidth == 25
cursorStatementColor == "Attribute(237)"
colorKeyword == "ColorBlue"
colorType == "ColorRed"

quoteNone == "NUL"
quoteSingle == "'"
quoteDouble == "\""

delimiters == {" ", "\n", "(", ")", ",", ";"}

\* initKeywords: the entries of the table that the modelled texts can spell
keywords ==
    [w \in {"all", "as", "at", "bit", "int", "select", "set", "varchar"} |->
        IF w \in {"bit", "int", "varchar"} THEN colorType ELSE colorKeyword]

ErrNone == "nil"
ErrNoStatement == "Cursor not in statement"

\* the text main() hands to editor.SetText
InitialText ==
    << <<"s","e","l","e","c","t"," ","*"," ","f","r","o","m"," ",
         "a","u","t","h","o","r","s",";">>,
       <<"s","e","l","e","c","t"," ","*"," ","f","r","o","m"," ",
         "b","o","o","k","s",";">> >>

\* a tui.Char as the editor creates it: no attributes yet
NewChar(c) == [Char |-> c, Fg |-> "ColorDefault", Bg |-> "ColorDefault"]

----------------------------------------------------------------------------
(* charStream *)

\* charStream with the newline only between lines, none after the last line
RECURSIVE charStreamBetweenLines(_)
charStreamBetweenLines(ls) ==
    IF ls = <<>> THEN <<>>
    ELSE IF Tail(ls) = <<>> THEN Head(ls)
    ELSE Head(ls) \o <<NewChar("\n")>> \o charStreamBetweenLines(Tail(ls))

RECURSIVE charStream(_)
charStream(ls) ==
    IF ls = <<>> THEN <<>>
    ELSE Head(ls) \o <<NewChar("\n")>> \o charStream(Tail(ls))

\* offset, in the stream, of the first cell of line l (1-based line number)
RECURSIVE LineOffset(_, _)
LineOffset(ls, l) ==
    IF l = 1 THEN 0 ELSE LineOffset(ls, l - 1) + Len(ls[l - 1]) + 1

----------------------------------------------------------------------------
(* cursorInWhichStatement *)

\* the range test one offset too far: cur > s.start + s.length
RECURSIVE FirstNotBeforeOffByOne(_, _, _)
FirstNotBeforeOffByOne(cur, ss, k) ==
    IF k > Len(ss) THEN 0
    ELSE IF cur > ss[k].start + ss[k].length
         THEN FirstNotBeforeOffByOne(cur, ss, k + 1)
         ELSE k

RECURSIVE FirstNotBefore(_, _, _)
FirstNotBefore(cur, ss, k) ==
    IF k > Len(ss) THEN 0
    ELSE IF cur > ss[k].start + ss[k].length - 1
         THEN FirstNotBefore(cur, ss, k + 1)
         ELSE k

\* the fallback taking the first statement instead of the last
ResolveFallbackFirst(k, ss) ==
    IF k # 0 THEN [s |-> ss[k], err |-> ErrNone]
    ELSE IF Len(ss) > 0 THEN [s |-> ss[1], err |-> ErrNone]
    ELSE [s |-> [start |-> 0, length |-> 0], err |-> ErrNoStatement]

\* the empty list answered without an error
ResolveNoError(k, ss) ==
    IF k # 0 THEN [s |-> ss[k], err |-> ErrNone]
    ELSE IF Len(ss) > 0 THEN [s |-> ss[Len(ss)], err |-> ErrNone]
    ELSE [s |-> [start |-> 0, length |-> 0], err |-> ErrNone]

\* the result of the range loop, or the fallbacks after it
Resolve(k, ss) ==
    IF k # 0 THEN [s |-> ss[k], err |-> ErrNone]
    ELSE IF Len(ss) > 0 THEN [s |-> ss[Len(ss)], err |-> ErrNone]
    ELSE [s |-> [start |-> 0, length |-> 0], err |-> ErrNoStatement]

cursorInWhichStatement(cur, ss) == Resolve(FirstNotBefore(cur, ss, 1), ss)

----------------------------------------------------------------------------
(* highlighter: one iteration of the loop, with cur = chars[i - 1] and     *)
(* next = chars[i] of the code, for the code's i in 1..len(chars)          *)

\* a backslash escaping nothing
NextSlashEscapedNever(hasNext, cur) == FALSE

\* nextSlashEscaped
NextSlashEscaped(hasNext, cur) == hasNext /\ cur = "\\"

\* any two equal quote characters taken as a pair, the opening one included
NextDoubleEscapedAnyPair(hasNext, cur, next, quote, quoteStartIndex, i) ==
    hasNext /\ next = cur /\ (cur = quoteSingle \/ cur = quoteDouble)

\* no doubled escape at all
NextDoubleEscapedNever(hasNext, cur, next, quote, quoteStartIndex, i) == FALSE

\* nextDoubleEscaped
NextDoubleEscaped(hasNext, cur, next, quote, quoteStartIndex, i) ==
    hasNext /\ next = quote /\ cur = quote /\ quoteStartIndex < i

\* an escaped character passing the escape on to the next one
NextEscapedChaining(curEscaped, nextSlashEscaped, nextDoubleEscaped) ==
    nextSlashEscaped \/ nextDoubleEscaped

\* nextEscaped
NextEscaped(curEscaped, nextSlashEscaped, nextDoubleEscaped) ==
    ~curEscaped /\ (nextSlashEscaped \/ nextDoubleEscaped)

\* a quote character counted as a quote even when it is escaped
IsCurQuoteIgnoringEscape(curEscaped, nextDoubleEscaped, cur) ==
    ~nextDoubleEscaped /\ (cur = quoteSingle \/ cur = quoteDouble)

\* isCurQuote
IsCurQuote(curEscaped, nextDoubleEscaped, cur) ==
    ~curEscaped /\ ~nextDoubleEscaped /\ (cur = quoteSingle \/ cur = quoteDouble)

\* a literal closed by a quote character of either type
EndQuoteAnyType(isCurQuote, quote, quoteToggledThisLoop, cur) ==
    isCurQuote /\ quote # quoteNone /\ ~quoteToggledThisLoop

\* the condition of "End quote"
EndQuote(isCurQuote, quote, quoteToggledThisLoop, cur) ==
    isCurQuote /\ quote # quoteNone /\ ~quoteToggledThisLoop /\ quote = cur

\* statements ending at the end of the stream only
StatementEndsOnlyAtEOF(hasNext, quote, cur) == ~hasNext

\* every semicolon ends a statement, quoted or not
StatementEndsIgnoringQuote(hasNext, quote, cur) == ~hasNext \/ cur = ";"

\* the condition of "Statements end at unquoted semi-colons and EOF"
StatementEnds(hasNext, quote, cur) ==
    ~hasNext \/ (quote = quoteNone /\ cur = ";")

\* the trailing newline never included
TrailingNewlineNever(hasNext, next) == FALSE

\* the condition of "Statements should include a trailing newline"
TrailingNewline(hasNext, next) == hasNext /\ next = "\n"

\* newStatement, as appended
NewStatement(statementStart, i, trailing) ==
    [start |-> statementStart,
     length |-> (i - statementStart) + (IF trailing THEN 1 ELSE 0)]

\* a statement of length 0 left out of the list
AppendStatementUnlessEmpty(ss, newStatement) ==
    IF newStatement.length = 0 THEN ss ELSE Append(ss, newStatement)

\* statements = append(statements, newStatement)
AppendStatement(ss, newStatement) == Append(ss, newStatement)

\* statementStart advanced past the next character, newline or not
NextStatementStartAlwaysSkip(i, trailing) == i + 1

\* statementStart not advanced past the included newline
NextStatementStartNoSkip(i, trailing) == i

\* statementStart after a statement ended
NextStatementStart(i, trailing) == IF trailing THEN i + 1 ELSE i

\* the colouring loop running one character past the start of the word
WordOffsetsBeyondWord(i, word) == (i - Len(word) - 2) .. (i - 1)

\* the colouring loop stopping one character short of the start of the word
WordOffsetsShort(i, word) == (i - Len(word)) .. (i - 1)

\* the offsets the keyword colouring writes: j := i - 1 down to i - len(word) - 1
WordOffsets(i, word) == (i - Len(word) - 1) .. (i - 1)

\* "Color quotes" without its else branch: outside a literal the colour stays
QuoteColorNoElse(quote, fg) == IF quote # quoteNone THEN "ColorGreen" ELSE fg

\* "Color quotes" leaving a keyword or type colour in place
QuoteColorKeepingKeyword(quote, fg) ==
    IF quote # quoteNone THEN "ColorGreen"
    ELSE IF fg \in {colorKeyword, colorType} THEN fg ELSE "ColorWhite"

\* "Color quotes": cur.Fg, whatever colour fg the character had
QuoteColor(quote, fg) == IF quote # quoteNone THEN "ColorGreen" ELSE "ColorWhite"

ScanInit(chars) ==
    [curEscaped |-> FALSE, quote |-> quoteNone, quoteStartIndex |-> 0,
     word |-> "", statements |-> <<>>, statementStart |-> 0,
     fg |-> <<>> \o [k \in 1..Len(chars) |-> chars[k].Fg],
     log |-> <<>>, panic |-> FALSE,
     \* the iteration i = 0: next = chars[0] if there is one, cur == nil
     steps |-> 1, indexes |-> IF Len(chars) > 0 THEN {0} ELSE {}]

ScanStep(chars, i, st) ==
    LET n == Len(chars)
        cur == chars[i].Char
        hasNext == i < n
        next == IF hasNext THEN chars[i + 1].Char ELSE "nil"
        nextSlashEscaped == NextSlashEscaped(hasNext, cur)
        nextDoubleEscaped ==
            NextDoubleEscaped(hasNext, cur, next, st.quote, st.quoteStartIndex, i)
        nextEscaped == NextEscaped(st.curEscaped, nextSlashEscaped, nextDoubleEscaped)
        isCurQuote == IsCurQuote(st.curEscaped, nextDoubleEscaped, cur)
        opens == isCurQuote /\ st.quote = quoteNone
        quote1 == IF opens THEN cur ELSE st.quote
        quoteStartIndex1 == IF opens THEN i ELSE st.quoteStartIndex
        isDelimiter == cur \in delimiters
        reset == isDelimiter \/ ~hasNext
        ok == reset /\ st.word \in DOMAIN keywords
        offs == WordOffsets(i, st.word)
        fg1 == IF ok
               THEN <<>> \o [k \in DOMAIN st.fg |->
                               IF (k - 1) \in offs THEN keywords[st.word] ELSE st.fg[k]]
               ELSE st.fg
        panic1 == st.panic \/ (ok /\ \E j \in offs : j < 0 \/ j >= n)
        \* the indexes of chars this iteration uses: chars[i], chars[j]
        indexes1 == st.indexes \cup (IF hasNext THEN {i} ELSE {})
                               \cup (IF ok THEN offs ELSE {})
        word1 == IF reset THEN "" ELSE st.word \o cur
        ends == StatementEnds(hasNext, quote1, cur)
        trailing == TrailingNewline(hasNext, next)
        statements1 ==
            IF ends
            THEN AppendStatement(st.statements,
                                 NewStatement(st.statementStart, i, trailing))
            ELSE st.statements
        statementStart1 ==
            IF ends THEN NextStatementStart(i, trailing) ELSE st.statementStart
        fg2 == [fg1 EXCEPT ![i] = QuoteColor(quote1, fg1[i])]
        row == [cur |-> cur, next |-> next, quote |-> quote1,
                statementStart |-> statementStart1,
                nstatements |-> Len(statements1), word |-> word1,
                curEscaped |-> st.curEscaped, nextEscaped |-> nextEscaped]
        closes == EndQuote(isCurQuote, quote1, opens, cur)
        quote2 == IF closes THEN quoteNone ELSE quote1
    IN [curEscaped |-> nextEscaped, quote |-> quote2,
        quoteStartIndex |-> quoteStartIndex1, word |-> word1,
        statements |-> statements1, statementStart |-> statementStart1,
        fg |-> fg2, log |-> Append(st.log, row), panic |-> panic1,
        steps |-> st.steps + 1, indexes |-> indexes1]

RECURSIVE ScanFrom(_, _, _)
ScanFrom(chars, i, st) ==
    IF i > Len(chars) THEN st
    ELSE LET s == ScanStep(chars, i, st) IN
         \* an index out of range panics: the loop goes no further
         IF s.panic THEN s ELSE ScanFrom(chars, i + 1, s)

\* the loop "for i := 0; i <= len(chars); i++": i = 0 is skipped (cur == nil)
Scan(chars) == ScanFrom(chars, 1, ScanInit(chars))

\* the background loop running one offset too far
IsActiveInclusive(i, s) == i >= s.start /\ i <= s.start + s.length

\* the condition of the background loop
IsActive(i, s) == i >= s.start /\ i < s.start + s.length

\* the attributes written to a fresh cell, as charStream makes for a newline
CellReplaced(ch, fg, bg) == [Char |-> "\n", Fg |-> fg, Bg |-> bg]

\* the background of the active statement written to Fg as well
WithBgAsFg(ch, fg, bg) ==
    [ch EXCEPT !.Fg = IF bg = cursorStatementColor THEN bg ELSE fg, !.Bg = bg]

\* chars[j].Fg = ..., cur.Fg = ..., chars[i].Bg = ...: written in place
WithFgBg(ch, fg, bg) == [ch EXCEPT !.Fg = fg, !.Bg = bg]

Background(i, s) ==
    IF IsActive(i, s) THEN cursorStatementColor ELSE "ColorBlack"

\* highlighter(e): the new cells of the editor, statements, statement, log
highlighter(ls, cur) ==
    LET chars == charStream(ls)
        sc == Scan(chars)
        res == cursorInWhichStatement(cur, sc.statements)
    IN [Lines |-> [l \in 1..Len(ls) |->
                     [c \in 1..Len(ls[l]) |->
                        LET o == LineOffset(ls, l) + c - 1 IN
                        WithFgBg(ls[l][c], sc.fg[o + 1], Background(o, res.s))]],
        statements |-> sc.statements,
        statement |-> res.s,
        log |-> sc.log]

----------------------------------------------------------------------------
(* runQuery *)

\* editor.GetChar(i): the character at offset i of the flattened text
GetChar(ls, i) ==
    LET chars == charStream(ls) IN
    IF i >= 0 /\ i < Len(chars)
    THEN [ch |-> chars[i + 1], err |-> ErrNone]
    ELSE [ch |-> NewChar("nil"), err |-> "index out of range"]

\* the loop that builds query from statement.start to start + length - 1
RECURSIVE BuildQuery(_, _, _)
BuildQuery(ls, i, end) ==
    IF i >= end THEN [query |-> "", err |-> ErrNone]
    ELSE LET g == GetChar(ls, i) IN
         IF g.err # ErrNone THEN [query |-> "", err |-> g.err]
         ELSE LET rest == BuildQuery(ls, i + 1, end) IN
              [query |-> g.ch.Char \o rest.query, err |-> rest.err]

\* what db.Query and res.Next/Scan can answer in the model
DbErrors == {"Error 1064"}
NULL == "nil-value"
DbResults ==
    { [columnNames |-> <<"id">>, values |-> << <<"123">>, <<NULL>> >>],
      [columnNames |-> <<"id", "title">>, values |-> <<>>] }

\* the nil value formatted like any other value
RenderValueNoNull(v) == IF v # NULL THEN v ELSE "%!s(<nil>)"

\* fmt.Sprintf("%s", values[i]) or "null"
RenderValue(v) == IF v # NULL THEN v ELSE "null"

\* a row made one cell longer than the column list
RenderRowExtraCell(vs) ==
    [k \in 1..(Len(vs) + 1) |-> IF k <= Len(vs) THEN RenderValue(vs[k]) ELSE "null"]

RenderRow(vs) == [k \in 1..Len(vs) |-> RenderValue(vs[k])]

Max(a, b) == IF a > b THEN a ELSE b

RECURSIVE WidestCell(_, _, _)
WidestCell(rows, k, width) ==
    IF rows = <<>> THEN width
    ELSE WidestCell(Tail(rows), k, Max(width, Len(Head(rows)[k])))

\* the width without the "width++"
ColumnWidthNoIncrement(name, rows, k) ==
    LET width == WidestCell(rows, k, Len(name))
        atLeast == IF width < minColumnWidth THEN minColumnWidth ELSE width
    IN IF atLeast > maxColumnWidth THEN maxColumnWidth ELSE atLeast

ColumnWidth(name, rows, k) ==
    LET width == WidestCell(rows, k, Len(name)) + 1
        atLeast == IF width < minColumnWidth THEN minColumnWidth ELSE width
    IN IF atLeast > maxColumnWidth THEN maxColumnWidth ELSE atLeast

EmptyResults == [Columns |-> <<>>, Rows |-> <<>>]

----------------------------------------------------------------------------
(* The program *)

TextLength(ls) == Len(charStream(ls)) - Len(ls)

Cells(text) == [l \in 1..Len(text) |-> [c \in 1..Len(text[l]) |-> NewChar(text[l][c])]]

\* the list of the previous pass kept: the new statements are appended to it
StatementsKept(prev) == prev

\* "statements = []Statement {}": what the pass appends its statements to
StatementsAtStart(prev) == <<>>

\* a cursor event that moves the cursor and leaves the resolved statement
RescanKeepingStatement(ls, cur) ==
    LET h == highlighter(ls, cur) IN
    /\ lines' = h.Lines
    /\ cursor' = cur
    /\ statements' = StatementsAtStart(statements) \o h.statements
    /\ statement' = statement
    /\ log' = h.log

\* the editor fires OnTextChanged / OnCursorMoved: highlighter runs
Rescan(ls, cur) ==
    LET h == highlighter(ls, cur) IN
    /\ lines' = h.Lines
    /\ cursor' = cur
    /\ statements' = StatementsAtStart(statements) \o h.statements
    /\ statement' = h.statement
    /\ log' = h.log

Init ==
    LET h == highlighter(Cells(InitialText), 0) IN
    /\ lines = h.Lines
    /\ cursor = 0
    /\ statements = h.statements
    /\ statement = h.statement
    /\ log = h.log
    /\ pc = "idle"
    /\ query = ""
    /\ status = ""
    /\ results = EmptyResults

\* offset of the end of the buffer, where the cursor rests after typing
EndOfBuffer(ls) == IF ls = <<>> THEN 0 ELSE Len(charStream(ls)) - 1

\* a character is typed at the end of the last line
InsertChar(c) ==
    /\ pc = "idle"
    /\ lines # <<>>
    /\ TextLength(lines) < MaxChars
    /\ LET ls == [lines EXCEPT ![Len(lines)] = Append(@, NewChar(c))] IN
       Rescan(ls, EndOfBuffer(ls))
    /\ UNCHANGED <<pc, query, status, results>>

\* a new line is opened after the last line
InsertLine ==
    /\ pc = "idle"
    /\ Len(lines) < MaxLines
    /\ TextLength(lines) <= MaxChars
    /\ LET ls == Append(lines, <<>>) IN Rescan(ls, EndOfBuffer(ls))
    /\ UNCHANGED <<pc, query, status, results>>

\* the last character of the last line is deleted
DeleteChar ==
    /\ pc = "idle"
    /\ lines # <<>>
    /\ TextLength(lines) <= MaxChars
    /\ lines[Len(lines)] # <<>>
    /\ LET last == lines[Len(lines)]
           ls == [lines EXCEPT ![Len(lines)] = SubSeq(last, 1, Len(last) - 1)]
       IN Rescan(ls, EndOfBuffer(ls))
    /\ UNCHANGED <<pc, query, status, results>>

\* the last line is deleted
DeleteLine ==
    /\ pc = "idle"
    /\ lines # <<>>
    /\ LET ls == SubSeq(lines, 1, Len(lines) - 1) IN Rescan(ls, EndOfBuffer(ls))
    /\ UNCHANGED <<pc, query, status, results>>

\* the offsets a cursor key can move the cursor to: h, l, gg, G
CursorTargets(ls, cur) ==
    {cur - 1, cur + 1, 0, EndOfBuffer(ls)}
        \cap (0 .. (Len(charStream(ls)) + CursorSlack))

\* the cursor moves; the text is unchanged
CursorMoved ==
    /\ pc = "idle"
    /\ \E c \in CursorTargets(lines, cursor) :
          /\ c # cursor
          /\ Rescan(lines, c)
    /\ UNCHANGED <<pc, query, status, results>>

\* the results of the previous query left in place
ResetKeepingResults(r) == r

\* results.Reset()
Reset(r) == EmptyResults

\* F5: runQuery up to the call of db.Query
RunQuery ==
    /\ pc = "idle"
    /\ LET b == BuildQuery(lines, statement.start, statement.start + statement.length) IN
       IF b.err # ErrNone
       THEN /\ pc' = "panic"
            /\ query' = ""
       ELSE /\ pc' = "query"
            /\ query' = b.query
    /\ results' = Reset(results)
    /\ UNCHANGED <<lines, cursor, statements, statement, log, status>>

\* db.Query returns an error
QueryFails ==
    /\ pc = "query"
    /\ \E e \in DbErrors : status' = e
    /\ pc' = "idle"
    /\ query' = ""
    /\ UNCHANGED <<lines, cursor, statements, statement, log, results>>

\* results.Columns and results.Rows for the answer r of the database
Published(r) ==
    LET rows == [k \in 1..Len(r.values) |-> RenderRow(r.values[k])] IN
    [Columns |-> [k \in 1..Len(r.columnNames) |->
                    [Name |-> r.columnNames[k],
                     Width |-> ColumnWidth(r.columnNames[k], rows, k)]],
     Rows |-> rows]

\* db.Query returns one of the answers of R: the rest of runQuery
QueryReturnsFrom(R) ==
    /\ pc = "query"
    /\ \E r \in R : results' = Published(r)
    /\ pc' = "idle"
    /\ query' = ""
    /\ UNCHANGED <<lines, cursor, statements, statement, log, status>>

\* db.Query returns rows
QueryReturns == QueryReturnsFrom(DbResults)

Next ==
    \/ \E c \in Alphabet : InsertChar(c)
    \/ InsertLine
    \/ DeleteChar
    \/ DeleteLine
    \/ CursorMoved
    \/ RunQuery
    \/ QueryFails
    \/ QueryReturns

Spec == Init /\ [][Next]_vars

----------------------------------------------------------------------------
(* The editor with words: the same program, typing letters of both cases,  *)
(* spaces and quotes, and loading whole texts with editor.SetText          *)

WordAlphabet == {"a", "s", "S", " ", "'"}

\* a'b\'c''d'e
QuoteSample == << <<"a", "'", "b", "\\", "'", "c", "'", "'", "d", "'", "e">> >>

\* ' as '
LiteralSample == << <<"'", " ", "a", "s", " ", "'">> >>

\* select varchar(a)
KeywordSample ==
    << <<"s","e","l","e","c","t"," ","v","a","r","c","h","a","r","(","a",")">> >>

\* SELECT
UpperSample == << <<"S","E","L","E","C","T">> >>

\* Select
MixedSample == << <<"S","e","l","e","c","t">> >>

\* 'a''b'
AdjacentSample == << <<"'", "a", "'", "'", "b", "'">> >>

SampleTexts ==
    {QuoteSample, LiteralSample, KeywordSample, UpperSample, MixedSample,
     AdjacentSample}

\* editor.SetText(t): fresh cells, the cursor at the start, OnTextChanged fires
SetText(t) ==
    /\ pc = "idle"
    /\ Rescan(Cells(t), 0)
    /\ UNCHANGED <<pc, query, status, results>>

NextWords ==
    \/ \E c \in WordAlphabet : InsertChar(c)
    \/ \E t \in SampleTexts : SetText(t)
    \/ InsertLine
    \/ DeleteChar
    \/ DeleteLine
    \/ CursorMoved

SpecWords == Init /\ [][NextWords]_vars

----------------------------------------------------------------------------
(* The execute path alone: the text of main(), the cursor keys, F5 and the *)
(* answers of the database that exercise the width computation             *)

\* values as the driver hands them over: NULL, or the bytes of the text
WideResults ==
    { [columnNames |-> <<"id">>, values |-> << <<"1">>, <<"123">> >>],
      [columnNames |-> <<"title">>,
       values |-> << <<"0123456789012345678901234567890123456789">> >>],
      [columnNames |-> <<"name", "n">>, values |-> << <<"0123456789", NULL>> >>],
      [columnNames |-> <<"a_column_name_of_thirty_chars_">>, values |-> <<>>],
      [columnNames |-> <<"id", "note">>,
       values |-> << <<NULL, "abcdefgh">>, <<"7", NULL>> >>] }

QueryReturnsWide == QueryReturnsFrom(WideResults)

NextQuery ==
    \/ CursorMoved
    \/ RunQuery
    \/ QueryFails
    \/ QueryReturnsWide

SpecQuery == Init /\ [][NextQuery]_vars

----------------------------------------------------------------------------
(* Vocabulary of the properties *)

\* the flattened stream of the current buffer and its length
Stream == charStream(lines)
StreamLen == Len(Stream)

\* the characters of the buffer, line by line, without attributes
TextOf(ls) == [l \in 1..Len(ls) |-> [c \in 1..Len(ls[l]) |-> ls[l][c].Char]]

\* the number of characters of the lines ls
RECURSIVE LineLengths(_)
LineLengths(ls) == IF ls = <<>> THEN 0 ELSE Len(Head(ls)) + LineLengths(Tail(ls))

RECURSIVE SumLength(_)
SumLength(ss) == IF ss = <<>> THEN 0 ELSE Head(ss).length + SumLength(Tail(ss))

\* the last offset of statement s
LastOffset(s) == s.start + s.length - 1

\* a statement was appended while the character at offset k - 1 was current
EmittedAt(k) ==
    log[k].nstatements > (IF k = 1 THEN 0 ELSE log[k - 1].nstatements)

\* the character at offset k - 1 is a semicolon at which no quote is open
UnquotedSemicolonAt(k) == log[k].cur = ";" /\ log[k].quote = quoteNone

UnquotedSemicolons == Cardinality({k \in 1..Len(log) : UnquotedSemicolonAt(k)})

\* the last character the user typed is an unquoted semicolon
EndsWithUnquotedSemicolon == Len(log) >= 2 /\ UnquotedSemicolonAt(Len(log) - 1)

\* the statements whose range contains offset c
Containing(c) ==
    {k \in 1..Len(statements) : statements[k].start <= c /\ c <= LastOffset(statements[k])}

\* the characters at offsets from .. to - 1 of a stream, as one string
RECURSIVE Substring(_, _, _)
Substring(cs, from, to) ==
    IF from >= to THEN "" ELSE cs[from + 1].Char \o Substring(cs, from + 1, to)

----------------------------------------------------------------------------
(* C1: the statement list is contiguous and covers the flattened stream    *)
(* exactly once: the first statement starts at offset 0, every statement   *)
(* ends where the next one starts, and the lengths add up to the length of *)
(* the stream.                                                             *)
C1_ContiguousCoverage ==
    /\ statements # <<>> => statements[1].start = 0
    /\ \A k \in 1..(Len(statements) - 1) :
          statements[k].start + statements[k].length = statements[k + 1].start
    /\ SumLength(statements) = StreamLen

C1_Witness ==
    /\ Len(statements) >= 2
    /\ Len(lines) = 1
    /\ statements[1].length >= 1
    /\ statements[2].length >= 1

(* C2, as stated: the two-line buffer of main() yields exactly two         *)
(* statements, the second one reaching the end of the buffer, and a buffer *)
(* that ends with an unquoted semicolon yields as many statements as it    *)
(* has unquoted semicolons.                                                *)
C2_AsStated ==
    /\ TextOf(lines) = InitialText =>
          /\ Len(statements) = 2
          /\ statements[1] = [start |-> 0, length |-> 23]
          /\ statements[2].start = 23
          /\ statements[2].start + statements[2].length = StreamLen
    /\ EndsWithUnquotedSemicolon => Len(statements) = UnquotedSemicolons

(* C3: a statement is emitted at a character if and only if the character  *)
(* is the last one of the stream or a semicolon at which no quote is open; *)
(* the statement list holds exactly the statements so emitted.             *)
C3_BoundaryIffEndOrUnquotedSemicolon ==
    /\ Len(log) = StreamLen
    /\ \A k \in 1..Len(log) :
          EmittedAt(k) <=> (k = Len(log) \/ UnquotedSemicolonAt(k))
    /\ \A k \in 1..Len(log) :
          log[k].cur = ";" /\ log[k].quote # quoteNone /\ k < Len(log) => ~EmittedAt(k)
    /\ Len(statements) = Cardinality({k \in 1..Len(log) : EmittedAt(k)})

C3_Witness ==
    /\ \E k \in 1..Len(log) : log[k].cur = ";" /\ log[k].quote # quoteNone
    /\ \E k \in 1..Len(log) : UnquotedSemicolonAt(k)

(* C4: a statement ended by a semicolon that a newline follows ends on     *)
(* that newline and the next statement starts just after the newline; a    *)
(* statement ended by a semicolon that no newline follows ends on the      *)
(* semicolon and the next statement starts right after it.                 *)
C4_TrailingNewlineIncluded ==
    \A k \in 1..(Len(log) - 1) :
        UnquotedSemicolonAt(k) =>
            LET s == statements[log[k].nstatements]
                nxt == statements[log[k].nstatements + 1]
            IN IF Stream[k + 1].Char = "\n"
               THEN LastOffset(s) = k /\ nxt.start = k + 1
               ELSE LastOffset(s) = k - 1 /\ nxt.start = k

C4_Witness ==
    /\ \E k \in 1..(Len(log) - 1) : UnquotedSemicolonAt(k) /\ Stream[k + 1].Char = "\n"
    /\ \E k \in 1..(Len(log) - 1) : UnquotedSemicolonAt(k) /\ Stream[k + 1].Char # "\n"

(* C5: a cursor offset inside the stream resolves, without error, to the   *)
(* one statement whose range start .. start + length - 1 contains it, and  *)
(* that is the statement the program holds for its own cursor.             *)
C5_CursorInsideResolves ==
    /\ \A c \in 0..(StreamLen - 1) :
          LET r == cursorInWhichStatement(c, statements) IN
          /\ r.err = ErrNone
          /\ Cardinality(Containing(c)) = 1
          /\ \E k \in Containing(c) : r.s = statements[k]
    /\ cursor < StreamLen => \E k \in Containing(cursor) : statement = statements[k]

C5_Witness ==
    /\ Len(statements) >= 2
    /\ statement = statements[2]
    /\ cursor = LastOffset(statement)
    /\ cursor < StreamLen

(* C6: with a non-empty statement list, a cursor offset at or beyond the   *)
(* end of the stream resolves to the last statement and never to an error. *)
C6_CursorBeyondEndFallsBack ==
    statements # <<>> =>
        /\ \A c \in StreamLen..(StreamLen + CursorSlack + 1) :
              /\ Containing(c) = {}
              /\ cursorInWhichStatement(c, statements) =
                    [s |-> statements[Len(statements)], err |-> ErrNone]
        /\ cursor >= StreamLen => statement = statements[Len(statements)]

C6_Witness ==
    /\ cursor >= StreamLen
    /\ Len(statements) >= 2
    /\ statement = statements[Len(statements)]
    /\ statement # statements[1]

(* C7: an empty buffer scans to an empty statement list, and resolving any *)
(* cursor offset against an empty list fails with the "no statement" error *)
(* and returns no statement of the buffer.                                 *)
C7_EmptyBufferNoStatement ==
    /\ lines = <<>> => statements = <<>>
    /\ statements = <<>> =>
          /\ lines = <<>>
          /\ \A c \in 0..(CursorSlack + 1) :
                cursorInWhichStatement(c, statements) =
                    [s |-> [start |-> 0, length |-> 0], err |-> ErrNoStatement]
          /\ statement = [start |-> 0, length |-> 0]

C7_Witness == lines = <<>> /\ statements = <<>> /\ pc = "idle"

(* C8, as stated: when the cursor resolves to no statement, the execute    *)
(* request declines: no query is handed to the database.                   *)
C8_DeclinesWithoutStatement ==
    pc = "query" => cursorInWhichStatement(cursor, statements).err = ErrNone

(* C9, as stated: with the cursor at or beyond the end of the stream and   *)
(* some statement of non-zero length in the buffer, the resolved statement *)
(* has non-zero length and the query handed to the database is not empty.  *)
C9_EndOfBufferRunsFinalStatement ==
    (cursor >= StreamLen /\ \E k \in 1..Len(statements) : statements[k].length > 0) =>
        /\ statement.length > 0
        /\ pc = "query" => query # ""

(* C10: the cells with the active-statement background are exactly those   *)
(* at the offsets start .. start + length - 1 of the resolved statement,   *)
(* every other cell has the inactive background, and the query handed to   *)
(* the database is the text of exactly that range, terminator and trailing *)
(* newline included.                                                       *)
C10_ActiveRangeIsQuery ==
    /\ statement = cursorInWhichStatement(cursor, statements).s
    /\ \A l \in 1..Len(lines) : \A c \in 1..Len(lines[l]) :
          LET o == LineOffset(lines, l) + c - 1 IN
          IF statement.start <= o /\ o < statement.start + statement.length
          THEN lines[l][c].Bg = cursorStatementColor
          ELSE lines[l][c].Bg = "ColorBlack"
    /\ pc = "query" =>
          /\ statement.start + statement.length <= StreamLen
          /\ query = Substring(Stream, statement.start, statement.start + statement.length)

C10_Witness ==
    /\ pc = "query"
    /\ statement.length >= 2
    /\ Stream[statement.start + statement.length].Char = "\n"
    /\ Stream[statement.start + statement.length - 1].Char = ";"
    /\ \E l \in 1..Len(lines) : \E c \in 1..Len(lines[l]) : lines[l][c].Bg = "ColorBlack"
    /\ \E l \in 1..Len(lines) : \E c \in 1..Len(lines[l]) : lines[l][c].Bg = cursorStatementColor

(* C11: after any text-changed and cursor-moved events the stored list is  *)
(* the scan of the current buffer and the stored statement the resolution  *)
(* of the current cursor against it, so an execute request runs the        *)
(* statement under the current cursor of the current text.                 *)
C11_StoredMatchesCurrentBuffer ==
    LET current == Scan(Stream).statements
        under == cursorInWhichStatement(cursor, current).s
    IN /\ statements = current
       /\ statement = under
       /\ pc = "query" => query = Substring(Stream, under.start, under.start + under.length)

C11_Witness ==
    /\ pc = "query"
    /\ TextOf(lines) # InitialText
    /\ cursor > 0
    /\ Len(statements) >= 2
    /\ statement.start > 0
    /\ statement.length > 0

(* C12: scanning the same buffer with the same cursor once more yields the *)
(* same statement list, the same resolved statement and the same           *)
(* foreground and background of every character.                           *)
C12_SecondScanIdentical ==
    LET h == highlighter(lines, cursor) IN
    /\ h.Lines = lines
    /\ StatementsAtStart(statements) \o h.statements = statements
    /\ h.statement = statement
    /\ h.log = log

C12_Witness ==
    /\ cursor > 0
    /\ statements # <<>>
    /\ \E l \in 1..Len(lines) : \E c \in 1..Len(lines[l]) : lines[l][c].Fg = colorKeyword
    /\ \E l \in 1..Len(lines) : \E c \in 1..Len(lines[l]) : lines[l][c].Fg = "ColorGreen"

(* C13: a scan carries nothing over from earlier scans: what is stored     *)
(* after scanning the current buffer, whatever was scanned before, is what *)
(* a first scan of that buffer yields, and the first character is scanned  *)
(* unescaped, with no quote open before it and an empty word.              *)
C13_NoCarryOver ==
    LET first == highlighter(Cells(TextOf(lines)), cursor) IN
    /\ first.Lines = lines
    /\ first.statements = statements
    /\ first.statement = statement
    /\ first.log = log
    /\ log # <<>> =>
          /\ ~log[1].curEscaped
          /\ log[1].quote \in {quoteNone, log[1].cur}
          /\ log[1].word \in {"", log[1].cur}

C13_Witness ==
    /\ TextOf(lines) = << <<"a", "s", "a">> >>
    /\ \A c \in 1..3 : lines[1][c].Fg = "ColorWhite"

----------------------------------------------------------------------------
(* Vocabulary of the colour properties.  Stream[k] is the cell at offset   *)
(* k - 1 with the colours the last pass left, or a newline between lines;  *)
(* log[k] is the row of the pass for that character.                       *)

IsCell(k) == Stream[k].Char # "\n"

\* the words of the buffer: the maximal runs p..q of non-delimiter characters
Runs ==
    {r \in (1..StreamLen) \X (1..StreamLen) :
        /\ r[1] <= r[2]
        /\ \A j \in r[1]..r[2] : Stream[j].Char \notin delimiters
        /\ r[1] = 1 \/ Stream[r[1] - 1].Char \in delimiters
        /\ r[2] = StreamLen \/ Stream[r[2] + 1].Char \in delimiters}

\* the run lies outside any literal
Unquoted(r) == \A j \in r[1]..r[2] : log[j].quote = quoteNone

\* the characters of the run, as typed
WordOf(r) == Substring(Stream, r[1] - 1, r[2])

\* strings.ToLower on one character
ToLower(c) ==
    CASE c = "A" -> "a" [] c = "C" -> "c" [] c = "E" -> "e"
      [] c = "L" -> "l" [] c = "S" -> "s" [] c = "T" -> "t"
      [] OTHER -> c

RECURSIVE LowerSubstring(_, _, _)
LowerSubstring(cs, from, to) ==
    IF from >= to THEN ""
    ELSE ToLower(cs[from + 1].Char) \o LowerSubstring(cs, from + 1, to)

\* the characters of the run, lower-cased
LowerWordOf(r) == LowerSubstring(Stream, r[1] - 1, r[2])

(* C14: in a'b\'c''d'e the quote after the backslash is escaped and leaves *)
(* the literal open, the doubled quote leaves it open too, the quote       *)
(* before e closes it; the characters from the first quote through that    *)
(* closing quote are string-coloured, a and e are not.                     *)
C14_QuoteSymmetry ==
    TextOf(lines) = QuoteSample =>
        /\ lines[1][1].Fg = "ColorWhite"
        /\ \A c \in 2..10 : lines[1][c].Fg = "ColorGreen"
        /\ lines[1][11].Fg = "ColorWhite"
        /\ log[4].nextEscaped /\ log[5].curEscaped
        /\ log[7].nextEscaped /\ log[8].curEscaped
        /\ \A k \in 2..10 : log[k].quote = quoteSingle
        /\ ~log[10].curEscaped
        /\ log[1].quote = quoteNone /\ log[11].quote = quoteNone

C14_Witness == TextOf(lines) = QuoteSample /\ cursor = 1 /\ Len(statements) = 1

(* C15, as stated: when a scan completes, every character scanned while a  *)
(* quote was open has the string-literal colour, and every character       *)
(* scanned while no quote was open has the default colour or a keyword or  *)
(* type colour.                                                            *)
C15_LiteralIsStringColoured ==
    \A k \in 1..StreamLen :
        IsCell(k) =>
            IF log[k].quote # quoteNone
            THEN Stream[k].Fg = "ColorGreen"
            ELSE Stream[k].Fg \in {"ColorWhite", colorKeyword, colorType}

(* C16, as stated: a word outside any literal whose lower-cased spelling   *)
(* is a key of the keyword table has the tag of that key.                  *)
C16_LookupIgnoresCase ==
    \A r \in Runs :
        (Unquoted(r) /\ LowerWordOf(r) \in DOMAIN keywords) =>
            \A j \in r[1]..r[2] : Stream[j].Fg = keywords[LowerWordOf(r)]

----------------------------------------------------------------------------
(* Vocabulary of the result properties *)

ColumnNames == [k \in 1..Len(results.Columns) |-> results.Columns[k].Name]

\* the answers of the database that the published result set can come from
Answers == {r \in WideResults : r.columnNames = ColumnNames /\ Len(r.values) = Len(results.Rows)}

\* the lengths that count for column k: its name and its rendered values
LengthsOf(k) ==
    {Len(results.Columns[k].Name)} \cup {Len(results.Rows[r][k]) : r \in 1..Len(results.Rows)}

Longest(k) == CHOOSE m \in LengthsOf(k) : \A x \in LengthsOf(k) : x <= m

Clamp(w) == IF w < minColumnWidth THEN minColumnWidth
            ELSE IF w > maxColumnWidth THEN maxColumnWidth ELSE w

(* C18: the width of every published column is the longest of its name    *)
(* and its rendered values, plus one, clamped to [5, 25]: a column id with *)
(* a longest value of 3 characters gets 5, a longest value of 40 gets 25.  *)
C18_WidthClamped ==
    \A k \in 1..Len(results.Columns) :
        LET width == results.Columns[k].Width IN
        /\ width = Clamp(Longest(k) + 1)
        /\ width >= 5 /\ width <= 25
        /\ (results.Columns[k].Name = "id" /\ Longest(k) = 3) => width = 5
        /\ Longest(k) = 40 => width = 25

C18_Witness ==
    /\ Len(results.Columns) = 2
    /\ results.Columns[1].Name = "name"
    /\ results.Columns[1].Width = 11
    /\ results.Columns[2].Width = 5

(* C19: in a published result set every row has as many cells as there    *)
(* are columns, and the column list has one entry per column name of the   *)
(* answer, in the answer's order, with one row per row of the answer.      *)
C19_RowsMatchColumns ==
    /\ \A r \in 1..Len(results.Rows) : Len(results.Rows[r]) = Len(results.Columns)
    /\ results # EmptyResults => Answers # {}

C19_Witness ==
    /\ Len(results.Columns) = 2
    /\ Len(results.Rows) = 2
    /\ ColumnNames = <<"id", "note">>

(* C20: a nil value of the answer is published as the 4-character string   *)
(* null, which is what its column's width is computed from; a value that   *)
(* is present is published as it is.                                       *)
C20_NilRenderedAsNull ==
    \A a \in Answers : \A r \in 1..Len(a.values) : \A k \in 1..Len(a.columnNames) :
        IF a.values[r][k] = NULL
        THEN /\ results.Rows[r][k] = "null"
             /\ Len(results.Rows[r][k]) = 4
             /\ 4 \in LengthsOf(k)
             /\ results.Columns[k].Width >= 4 + 1
        ELSE results.Rows[r][k] = a.values[r][k]

C20_Witness ==
    /\ Answers # {}
    /\ Len(results.Rows) = 2
    /\ results.Rows[1][1] = "null"
    /\ results.Rows[2][1] = "7"

----------------------------------------------------------------------------
(* Vocabulary of the tracker properties *)

\* the pass over the current buffer, with its counters
Pass == Scan(Stream)

\* the state of the pass after each character: Trace[k] is the state after
\* the character at offset k - 1 was current
RECURSIVE TraceFrom(_, _, _)
TraceFrom(chars, i, st) ==
    IF i > Len(chars) THEN <<>>
    ELSE LET s == ScanStep(chars, i, st) IN
         <<[quote |-> s.quote, quoteStartIndex |-> s.quoteStartIndex]>>
             \o TraceFrom(chars, i + 1, s)

Trace == TraceFrom(Stream, 1, ScanInit(Stream))

QuoteChars == {quoteSingle, quoteDouble}

\* the quote state before and after the character at offset k - 1 was current
QuoteBefore(tr, k) == IF k = 1 THEN quoteNone ELSE tr[k - 1].quote
QuoteAfter(tr, k) == tr[k].quote

\* the character at offset k - 1 opened, or closed, a literal
OpensAt(tr, k) == QuoteBefore(tr, k) = quoteNone /\ log[k].quote # quoteNone
ClosesAt(tr, k) == log[k].quote # quoteNone /\ QuoteAfter(tr, k) = quoteNone

(* C21: the pass over any buffer ends after one iteration per character    *)
(* of the stream plus one, writes one log row per character, uses no index *)
(* of the stream outside 0 .. length - 1, the keyword colouring included,  *)
(* and does not panic.                                                     *)
C21_ScanTotal ==
    /\ ~Pass.panic
    /\ Pass.steps = StreamLen + 1
    /\ Pass.indexes \subseteq 0..(StreamLen - 1)
    /\ Len(Pass.log) = StreamLen
    /\ Len(log) = StreamLen
    /\ lines = <<>> => statements = <<>> /\ Pass.steps = 1 /\ Pass.indexes = {}

C21_Witness ==
    /\ TextOf(lines) = << <<";", "'", "\\">> >>
    /\ Pass.steps = 5
    /\ Pass.indexes = 0..3

(* C22: when the pass ends with a quote open, it ended without a panic;    *)
(* from the quote that opened the literal to the end of the stream every   *)
(* character was scanned with that quote open, none of them, semicolons    *)
(* included, ended a statement before the last character, and the last     *)
(* statement runs from the last boundary, at or before the opening quote,  *)
(* to the end of the stream.                                               *)
C22_UnterminatedQuoteStaysOpen ==
    LET tr == Trace IN
    (StreamLen > 0 /\ tr[StreamLen].quote # quoteNone) =>
        LET q == tr[StreamLen].quote
            open == tr[StreamLen].quoteStartIndex
            last == statements[Len(statements)]
        IN /\ ~Pass.panic
           /\ Len(log) = StreamLen
           /\ log[open].cur = q /\ OpensAt(tr, open)
           /\ \A k \in open..StreamLen : log[k].quote = q /\ QuoteAfter(tr, k) = q
           /\ \A k \in open..(StreamLen - 1) : ~EmittedAt(k)
           /\ EmittedAt(StreamLen)
           /\ last.start <= open - 1
           /\ last.start + last.length = StreamLen

C22_Witness ==
    /\ TextOf(lines) = << <<";", "'", ";">> >>
    /\ Trace[StreamLen].quote = quoteSingle
    /\ statements = <<[start |-> 0, length |-> 1], [start |-> 1, length |-> 3]>>

(* C23: the next character is marked escaped only at a character that is   *)
(* not escaped itself, the mark is what the next step sees as curEscaped,   *)
(* so no two consecutive characters are both escaped; a quote character     *)
(* after two backslashes, the first one unescaped, is unescaped: it opens   *)
(* a literal when none is open, and closes the open literal of its type     *)
(* unless the same quote character follows it.                              *)
C23_EscapingDoesNotChain ==
    LET tr == Trace IN
    /\ \A k \in 1..Len(log) : log[k].nextEscaped => ~log[k].curEscaped
    /\ log # <<>> => ~log[1].curEscaped
    /\ \A k \in 1..(Len(log) - 1) :
          /\ log[k + 1].curEscaped = log[k].nextEscaped
          /\ ~(log[k].curEscaped /\ log[k + 1].curEscaped)
    /\ \A k \in 3..(Len(log) - 1) :
          (/\ log[k - 2].cur = "\\" /\ ~log[k - 2].curEscaped
           /\ log[k - 1].cur = "\\"
           /\ log[k].cur \in QuoteChars) =>
              /\ log[k - 1].curEscaped
              /\ ~log[k].curEscaped
              /\ QuoteBefore(tr, k) = quoteNone =>
                    OpensAt(tr, k) /\ log[k].quote = log[k].cur
              /\ (QuoteBefore(tr, k) = log[k].cur /\ log[k + 1].cur # log[k].cur) =>
                    ClosesAt(tr, k)

C23_Witness ==
    /\ TextOf(lines) = << <<"\\", "\\", "'">> >>
    /\ log[1].nextEscaped /\ log[2].curEscaped
    /\ log[3].quote = quoteSingle

(* C24: a quote character right after an unescaped backslash is escaped    *)
(* and leaves the quote state as it was: with a literal open it stays      *)
(* open, with none open none is opened.                                    *)
C24_EscapedQuoteKeepsState ==
    LET tr == Trace IN
    \A k \in 2..Len(log) :
        (/\ log[k - 1].cur = "\\" /\ ~log[k - 1].curEscaped
         /\ log[k].cur \in QuoteChars) =>
            /\ log[k].curEscaped
            /\ log[k].quote = QuoteBefore(tr, k)
            /\ QuoteAfter(tr, k) = QuoteBefore(tr, k)
            /\ ~OpensAt(tr, k) /\ ~ClosesAt(tr, k)

C24_Witness ==
    /\ TextOf(lines) = << <<"'", "\\", "'">> >>
    /\ log[3].curEscaped
    /\ Trace[StreamLen].quote = quoteSingle

(* C25: with a literal open before it, an unescaped quote character of the *)
(* literal's type followed by the same quote character is the first half   *)
(* of a doubled escape: the second one is escaped and the literal is open  *)
(* after both.  The quote character that opens a literal is not a first    *)
(* half: when the same quote character follows it, and then a character    *)
(* that is no quote, the literal opens on the first, closes on the second, *)
(* and the character after them is scanned with no quote open.             *)
C25_DoubledQuote ==
    LET tr == Trace IN
    /\ \A k \in 1..(Len(log) - 1) :
          (/\ QuoteBefore(tr, k) # quoteNone
           /\ log[k].cur = QuoteBefore(tr, k) /\ ~log[k].curEscaped
           /\ log[k + 1].cur = log[k].cur) =>
              /\ log[k].nextEscaped /\ log[k + 1].curEscaped
              /\ QuoteAfter(tr, k) = log[k].cur
              /\ QuoteAfter(tr, k + 1) = log[k].cur
    /\ \A k \in 1..(Len(log) - 2) :
          (/\ QuoteBefore(tr, k) = quoteNone
           /\ log[k].cur \in QuoteChars /\ ~log[k].curEscaped
           /\ log[k + 1].cur = log[k].cur
           /\ log[k + 2].cur \notin QuoteChars) =>
              /\ OpensAt(tr, k) /\ log[k].quote = log[k].cur
              /\ ~log[k].nextEscaped /\ ~log[k + 1].curEscaped
              /\ QuoteAfter(tr, k) = log[k].cur
              /\ ClosesAt(tr, k + 1)
              /\ log[k + 2].quote = quoteNone

C25_Witness ==
    /\ TextOf(lines) = << <<"'", "'", "a">> >>
    /\ log[1].quote = quoteSingle /\ log[2].quote = quoteSingle
    /\ log[3].quote = quoteNone

(* C26: a literal is closed only at an unescaped quote character of the    *)
(* type that opened it, and not at the character that opened it; a quote   *)
(* character of the other type scanned with a literal open leaves that     *)
(* literal open and opens none; the quote state is always none, single or  *)
(* double.                                                                 *)
C26_ClosedBySameTypeOnly ==
    LET tr == Trace IN
    /\ \A k \in 1..Len(log) :
          ClosesAt(tr, k) =>
              /\ log[k].cur = log[k].quote
              /\ ~log[k].curEscaped
              /\ QuoteBefore(tr, k) = log[k].quote
    /\ \A k \in 1..Len(log) :
          (/\ QuoteBefore(tr, k) # quoteNone
           /\ log[k].cur \in QuoteChars
           /\ log[k].cur # QuoteBefore(tr, k)) =>
              /\ log[k].quote = QuoteBefore(tr, k)
              /\ QuoteAfter(tr, k) = QuoteBefore(tr, k)
    /\ \A k \in 1..Len(log) :
          /\ log[k].quote \in {quoteNone, quoteSingle, quoteDouble}
          /\ QuoteAfter(tr, k) \in {quoteNone, quoteSingle, quoteDouble}

C26_Witness ==
    /\ TextOf(lines) = << <<"'", "\"", "'">> >>
    /\ log[2].quote = quoteSingle
    /\ ClosesAt(Trace, 3)

(* C27: in 'a''b' the quote after a is the first half of a doubled escape  *)
(* and the quote before b its escaped second half: the literal opened by   *)
(* the first quote is open at every character up to the last quote, which  *)
(* closes it; a literal is opened once and closed once, and all six        *)
(* characters are string-coloured.                                         *)
C27_AdjacentLiteralsAreOne ==
    LET tr == Trace IN
    TextOf(lines) = AdjacentSample =>
        /\ log[3].nextEscaped /\ log[4].curEscaped
        /\ \A k \in 1..6 : log[k].quote = quoteSingle
        /\ \A k \in 1..5 : QuoteAfter(tr, k) = quoteSingle
        /\ {k \in 1..Len(log) : OpensAt(tr, k)} = {1}
        /\ {k \in 1..Len(log) : ClosesAt(tr, k)} = {6}
        /\ tr[6].quoteStartIndex = 1
        /\ log[7].quote = quoteNone
        /\ \A c \in 1..6 : lines[1][c].Fg = "ColorGreen"
        /\ Len(statements) = 1

C27_Witness ==
    /\ TextOf(lines) = AdjacentSample
    /\ cursor = 1
    /\ ClosesAt(Trace, 6)

(* C28, as stated: a semicolon that the tracker marks as escaped ends no   *)
(* statement, and every unescaped semicolon scanned with no quote open     *)
(* ends one.                                                               *)
C28_AsStated ==
    \A k \in 1..Len(log) :
        log[k].cur = ";" =>
            /\ log[k].curEscaped => ~EmittedAt(k)
            /\ (~log[k].curEscaped /\ log[k].quote = quoteNone) => EmittedAt(k)

(* C28, amended: statements are delimited by unquoted semicolons and the   *)
(* end of the buffer.  A semicolon ends a statement exactly when no quote  *)
(* is open at it, whether or not the tracker marks it escaped; every       *)
(* statement but the last ends at such a semicolon or at the newline right *)
(* after it, and holds no other unquoted semicolon.                        *)
C28_UnquotedSemicolonEnds ==
    /\ \A k \in 1..Len(log) :
          log[k].cur = ";" => (EmittedAt(k) <=> log[k].quote = quoteNone)
    /\ \A j \in 1..(Len(statements) - 1) :
          LET s == statements[j]
              semi == IF Stream[s.start + s.length].Char = "\n"
                      THEN s.start + s.length - 1 ELSE s.start + s.length
          IN /\ semi > s.start
             /\ UnquotedSemicolonAt(semi)
             /\ \A k \in (s.start + 1)..(semi - 1) : ~UnquotedSemicolonAt(k)

C28_Witness ==
    /\ TextOf(lines) = << <<"\\", ";", "a">> >>
    /\ log[2].curEscaped
    /\ statements = <<[start |-> 0, length |-> 2], [start |-> 2, length |-> 2]>>

----------------------------------------------------------------------------
(* C29: the stream holds the characters of every line in order, each line  *)
(* followed by one newline: for n lines its length is the sum of the line  *)
(* lengths plus n.  A non-empty stream ends with a newline, so the word     *)
(* that is looked up while the last character is current is the whole run  *)
(* of non-delimiter characters that ends the text, and a table word at the *)
(* end of the text gets its tag.                                           *)
C29_NewlineAfterEveryLine ==
    /\ StreamLen = LineLengths(lines) + Len(lines)
    /\ \A l \in 1..Len(lines) :
          LET from == LineLengths(SubSeq(lines, 1, l - 1)) + (l - 1) IN
          /\ \A c \in 1..Len(lines[l]) : Stream[from + c] = lines[l][c]
          /\ Stream[from + Len(lines[l]) + 1].Char = "\n"
    /\ StreamLen > 0 =>
          /\ Stream[StreamLen].Char = "\n"
          /\ log[StreamLen].cur = "\n" /\ log[StreamLen].next = "nil"
          /\ log[StreamLen].word = ""
    /\ \A r \in Runs :
          r[2] = StreamLen - 1 =>
              /\ log[r[2]].word = WordOf(r)
              /\ (Unquoted(r) /\ WordOf(r) \in DOMAIN keywords) =>
                    \A j \in r[1]..r[2] : Stream[j].Fg = keywords[WordOf(r)]

C29_Witness ==
    /\ TextOf(lines) = << <<"a", "s">> >>
    /\ StreamLen = 3
    /\ log[2].word = "as"
    /\ lines[1][1].Fg = colorKeyword /\ lines[1][2].Fg = colorKeyword

----------------------------------------------------------------------------
(* Vocabulary of the frame property *)

\* the lengths of the lines of the buffer
Shape(ls) == [l \in 1..Len(ls) |-> Len(ls[l])]

\* the characters the editor was ever given: typed, or of the text of main()
Given ==
    Alphabet \cup UNION {{InitialText[l][c] : c \in DOMAIN InitialText[l]} :
                            l \in DOMAIN InitialText}

(* C30: a step in which only a pass runs (a cursor event: no character or  *)
(* line is added or removed) leaves the characters of every cell, their    *)
(* order and the lines as they were, leaves the cursor where the editor    *)
(* put it, and changes nothing but the cell colours, the statement list,   *)
(* the resolved statement and the log; in a step that edits the text the   *)
(* pass leaves every cell the edit kept with its character, and the cells  *)
(* hold no character the editor was not given.                             *)
C30_Step ==
    /\ (pc = "idle" /\ pc' = "idle" /\ Shape(lines') = Shape(lines)) =>
          /\ TextOf(lines') = TextOf(lines)
          /\ cursor' \in CursorTargets(lines, cursor)
          /\ UNCHANGED <<query, status, results>>
    /\ (pc = "idle" /\ pc' = "idle") =>
          /\ \A l \in 1..Len(lines') : \A c \in 1..Len(lines'[l]) :
                /\ lines'[l][c].Char \in Given
                /\ (l <= Len(lines) /\ c <= Len(lines[l])) =>
                      lines'[l][c].Char = lines[l][c].Char
          /\ cursor' \in CursorTargets(lines, cursor) \cup {EndOfBuffer(lines')}
    /\ pc' # pc => UNCHANGED <<lines, cursor, statements, statement, log>>

C30_ScanFrame == [][C30_Step]_vars

C30_Witness ==
    /\ TextOf(lines) = InitialText
    /\ cursor = 45
    /\ statement = [start |-> 44, length |-> 0]
    /\ \A l \in {1, 2} : \A c \in 1..Len(lines[l]) : lines[l][c].Bg = "ColorBlack"

----------------------------------------------------------------------------
(* C31: a non-empty stream scans to as many statements as it has           *)
(* semicolons at which no quote is open, plus one; its last character, at  *)
(* which the end-of-stream statement is emitted, is never a semicolon, and *)
(* no character emits more than one statement.                             *)
C31_StatementCount ==
    StreamLen > 0 =>
        /\ Len(statements) = UnquotedSemicolons + 1
        /\ log[StreamLen].cur # ";"
        /\ ~UnquotedSemicolonAt(StreamLen)
        /\ \A k \in 1..Len(log) :
              log[k].nstatements - (IF k = 1 THEN 0 ELSE log[k - 1].nstatements)
                  \in {0, 1}

C31_Witness ==
    /\ TextOf(lines) = << <<";", "'", ";">> >>
    /\ UnquotedSemicolons = 1
    /\ Len(statements) = 2

(* C32: no statement has a negative length; a statement of length 0 is the *)
(* last one of the list and starts at the length of the stream, and there  *)
(* is one exactly when the character before the last newline of the stream *)
(* is a semicolon at which no quote is open; every other statement has a   *)
(* length of at least 1.                                                   *)
C32_EmptyStatementOnlyLast ==
    /\ \A j \in 1..Len(statements) :
          /\ statements[j].length >= 0
          /\ statements[j].length = 0 =>
                j = Len(statements) /\ statements[j].start = StreamLen
          /\ j < Len(statements) => statements[j].length >= 1
    /\ (\E j \in 1..Len(statements) : statements[j].length = 0) <=>
          (StreamLen >= 2 /\ UnquotedSemicolonAt(StreamLen - 1))

C32_Witness ==
    /\ TextOf(lines) = << <<";", "a", ";">> >>
    /\ statements = <<[start |-> 0, length |-> 1], [start |-> 1, length |-> 3],
                      [start |-> 4, length |-> 0]>>

----------------------------------------------------------------------------
\* the foreground and the background colours of the cells
FgOf(ls) == [l \in 1..Len(ls) |-> [c \in 1..Len(ls[l]) |-> ls[l][c].Fg]]
BgOf(ls) == [l \in 1..Len(ls) |-> [c \in 1..Len(ls[l]) |-> ls[l][c].Bg]]

(* C33: a step that moves the cursor and leaves the text as it is leaves   *)
(* the statement list, the foreground colour of every cell and the log as  *)
(* they are; the resolved statement is then the one under the new cursor,  *)
(* and the background of a cell changes only when the resolved statement   *)
(* does.                                                                   *)
C33_Step ==
    (pc = "idle" /\ pc' = "idle" /\ cursor' # cursor
        /\ TextOf(lines') = TextOf(lines)) =>
        /\ statements' = statements
        /\ FgOf(lines') = FgOf(lines)
        /\ log' = log
        /\ statement' = cursorInWhichStatement(cursor', statements).s
        /\ statement' = statement => BgOf(lines') = BgOf(lines)

C33_CursorMoveKeepsListAndFg == [][C33_Step]_vars

C33_Witness ==
    /\ TextOf(lines) = InitialText
    /\ cursor = 23
    /\ statement = statements[2]
    /\ lines[1][1].Fg = colorKeyword /\ lines[1][1].Bg = "ColorBlack"
    /\ lines[2][1].Fg = colorKeyword /\ lines[2][1].Bg = cursorStatementColor

----------------------------------------------------------------------------
(* C34: an execute request empties the results view before the query is    *)
(* handed to the database, and the view is empty for as long as the        *)
(* database has not answered; when the database rejects the query the      *)
(* status line gets the error text and the view is still empty, so what an *)
(* earlier query published is not shown after a failed one.                *)
C34_Step ==
    /\ (pc = "idle" /\ pc' # "idle") => results' = EmptyResults
    /\ pc' = "query" => results' = EmptyResults
    /\ (pc = "query" /\ pc' = "idle") =>
          \/ status' \in DbErrors /\ results' = EmptyResults
          \/ status' = status /\ \E r \in WideResults : results' = Published(r)

C34_FailedQueryShowsNoResults == [][C34_Step]_vars

C34_Witness ==
    /\ pc = "idle"
    /\ status \in DbErrors
    /\ results = EmptyResults
    /\ cursor = 23

(* C35, as stated: once an execute request has succeeded, with its result  *)
(* set in the results view, the status line does not show the error text   *)
(* of an earlier failed execute.                                           *)
C35_StatusReflectsLastExecute ==
    (pc = "idle" /\ results # EmptyResults) => status \notin DbErrors

----------------------------------------------------------------------------
(* C36: the keyword colouring writes the word and the delimiter after it,  *)
(* and the delimiter is coloured again in the same iteration: when the     *)
(* pass is over, no delimiter of the stream, the newline after each line   *)
(* included, has the keyword or the type colour, while the word before it  *)
(* has.                                                                    *)
C36_DelimiterNeverKeywordColoured ==
    /\ \A k \in 1..StreamLen :
          Stream[k].Char \in delimiters =>
              /\ Pass.fg[k] \in {"ColorWhite", "ColorGreen"}
              /\ IsCell(k) => Stream[k].Fg \in {"ColorWhite", "ColorGreen"}
    /\ \A r \in Runs :
          (Unquoted(r) /\ WordOf(r) \in DOMAIN keywords) =>
              /\ Stream[r[2] + 1].Char \in delimiters
              /\ Pass.fg[r[2]] = keywords[WordOf(r)]
              /\ Pass.fg[r[2] + 1] = "ColorWhite"

C36_Witness ==
    /\ TextOf(lines) = << <<"a", "s", " ">> >>
    /\ lines[1][2].Fg = colorKeyword
    /\ lines[1][3].Fg = "ColorWhite"

====
